---------------------------- MODULE Spec2Model ----------------------------
(***************************************************************************)
(* Model of utils/log.py: the WandbLogger facade over the local log        *)
(* directory <base>/log/<logger_name>/{dataset,model} and the remote       *)
(* tracking session (metric records, versions of the "model" artifact).    *)
(*                                                                         *)
(* Every facade operation is one action that runs the whole handler,       *)
(* including the helpers it calls.  Calls to the tracking client may fail  *)
(* (the code has no try/except around them, so the exception aborts the    *)
(* handler where it is raised); the model draws that outcome with \E.      *)
(***************************************************************************)
EXTENDS Integers, Sequences, FiniteSets

(***************************************************************************)
(* Bounds of the model.                                                    *)
(***************************************************************************)
MaxVersions == 2
MaxRecords == 1
MaxTicks == 1

\* Names of the files that can be in a directory.
FileNames == {"model.pt"}

(***************************************************************************)
(* The local filesystem at the derived log path.                           *)
(*   kind: what the path is.  "dlink" is a symlink whose target does not   *)
(*   exist, "flink" a symlink to a regular file, "dirlink" a symlink to a  *)
(*   directory, "file" a regular file, "dir" a real directory.             *)
(* fs.root is the kind of log_dir; fs.dataset and fs.model are the entries *)
(* "dataset" and "model" of the directory log_dir resolves to (with the    *)
(* file names they hold when they resolve to a directory); fs.other is the *)
(* set of further file names directly inside that directory.               *)
(***************************************************************************)
Kinds == {"absent", "file", "dlink", "flink", "dirlink", "dir"}

NoEntry == [kind |-> "absent", files |-> {}]

EmptyDir == [kind |-> "dir", files |-> {}]

IsDirKind(k) == k \in {"dir", "dirlink"}

Entries ==
    { e \in [kind : Kinds, files : SUBSET FileNames] :
        (~IsDirKind(e.kind)) => e.files = {} }

FsStates ==
    { f \in [root : Kinds, dataset : Entries, model : Entries,
             other : SUBSET FileNames] :
        (~IsDirKind(f.root)) =>
            (f.dataset = NoEntry /\ f.model = NoEntry /\ f.other = {}) }

KindAt(f, p) ==
    IF p = "log_dir" THEN f.root
    ELSE IF ~IsDirKind(f.root) THEN "absent"
    ELSE IF p = "dataset" THEN f.dataset.kind
    ELSE f.model.kind

\* os.path.exists follows symlinks: a dangling symlink does not exist.
PathExists(f, p) == KindAt(f, p) \in {"file", "flink", "dirlink", "dir"}

\* os.path.isfile follows symlinks.
PathIsFile(f, p) == KindAt(f, p) \in {"file", "flink"}

\* os.path.islink does not follow symlinks.
PathIsLink(f, p) == KindAt(f, p) \in {"dlink", "flink", "dirlink"}

\* The path is gone (os.unlink of a file or symlink, shutil.rmtree of a
\* directory with everything below it).
Removed(f, p) ==
    IF p = "log_dir"
      THEN [root |-> "absent", dataset |-> NoEntry, model |-> NoEntry,
            other |-> {}]
    ELSE IF p = "dataset" THEN [f EXCEPT !.dataset = NoEntry]
    ELSE [f EXCEPT !.model = NoEntry]

remove_file_dir(f, p) ==
    IF ~PathExists(f, p) THEN f
    ELSE IF PathIsFile(f, p) \/ PathIsLink(f, p) THEN Removed(f, p)
    ELSE Removed(f, p)

\* os.makedirs(path) without exist_ok: FileExistsError when anything is at
\* the path, a dangling symlink included.
MakedirsFails(f, p) == KindAt(f, p) # "absent"

makedirs(f, p) ==
    IF p = "log_dir" THEN [f EXCEPT !.root = "dir"]
    ELSE IF p = "dataset" THEN [f EXCEPT !.dataset = EmptyDir]
    ELSE [f EXCEPT !.model = EmptyDir]

\* The three removals of _initialize_log_dir.
WipedLogDir(f) ==
    remove_file_dir(
        remove_file_dir(remove_file_dir(f, "dataset"), "model"),
        "log_dir")

\* The values the three remove_file_dir calls return (True: something was
\* removed), as the calls of the trace.
RemoveCalls(f) ==
    LET f1 == remove_file_dir(f, "dataset")
        f2 == remove_file_dir(f1, "model")
    IN << <<"remove_file_dir", "dataset", PathExists(f, "dataset")>>,
          <<"remove_file_dir", "model", PathExists(f1, "model")>>,
          <<"remove_file_dir", "log_dir", PathExists(f2, "log_dir")>> >>

\* Variant of _initialize_log_dir that leaves out the last makedirs.
initialize_log_dir_NoDataset(f) ==
    LET w == WipedLogDir(f)
        mk(p) == <<"makedirs", p, TRUE>>
        rm == RemoveCalls(f)
    IN
    IF MakedirsFails(w, "log_dir")
      THEN [ok |-> FALSE, fs |-> w, calls |-> rm \o <<mk("log_dir")>>]
    ELSE LET a == makedirs(w, "log_dir") IN
    IF MakedirsFails(a, "model")
      THEN [ok |-> FALSE, fs |-> a,
            calls |-> rm \o <<mk("log_dir"), mk("model")>>]
    ELSE [ok |-> TRUE, fs |-> makedirs(a, "model"),
          calls |-> rm \o <<mk("log_dir"), mk("model")>>]

\* _initialize_log_dir: ok is FALSE when a makedirs raised; fs is the
\* filesystem it leaves; calls are the filesystem calls it made.
initialize_log_dir(f) ==
    LET w == WipedLogDir(f)
        mk(p) == <<"makedirs", p, TRUE>>
        rm == RemoveCalls(f)
    IN
    IF MakedirsFails(w, "log_dir")
      THEN [ok |-> FALSE, fs |-> w, calls |-> rm \o <<mk("log_dir")>>]
    ELSE LET a == makedirs(w, "log_dir") IN
    IF MakedirsFails(a, "model")
      THEN [ok |-> FALSE, fs |-> a,
            calls |-> rm \o <<mk("log_dir"), mk("model")>>]
    ELSE LET b == makedirs(a, "model") IN
    IF MakedirsFails(b, "dataset")
      THEN [ok |-> FALSE, fs |-> b,
            calls |-> rm \o <<mk("log_dir"), mk("model"), mk("dataset")>>]
    ELSE [ok |-> TRUE, fs |-> makedirs(b, "dataset"),
          calls |-> rm \o <<mk("log_dir"), mk("model"), mk("dataset")>>]

\* Variant of the enumeration that takes a path it cannot read for an
\* empty directory.
CanEnumerate_Lenient(f, p) == TRUE

\* next(os.walk(directory)) yields only when the path resolves to a
\* directory; otherwise the generator is empty (StopIteration).
CanEnumerate(f, p) == IsDirKind(KindAt(f, p))


(***************************************************************************)
(* Wall clock read by datetime.now(), to the second.                       *)
(***************************************************************************)
StartTime == [d |-> 5, mo |-> 5, y |-> 2021, h |-> 22, mi |-> 59, s |-> 59]

\* One second later (within the day).
Tick(t) ==
    IF t.s < 59 THEN [t EXCEPT !.s = @ + 1]
    ELSE IF t.mi < 59 THEN [t EXCEPT !.s = 0, !.mi = @ + 1]
    ELSE [t EXCEPT !.s = 0, !.mi = 0, !.h = @ + 1]

\* strftime("%d-%m-%Y-%H-%M-%S"): the fields in that order.
get_formatted_date_time(t) == <<t.d, t.mo, t.y, t.h, t.mi, t.s>>

(***************************************************************************)
(* Aliases.  "latest" is <<"latest">>; "finished-<dt_string>" is           *)
(* <<"finished">> followed by the fields of the date-time string.          *)
(***************************************************************************)
Latest == <<"latest">>

FinishedAlias(t) == <<"finished">> \o get_formatted_date_time(t)

IsFinishedAlias(a) == Len(a) = 7 /\ a[1] = "finished"

\* Variant of the alias list that leaves "latest" out of a finished upload.
ModelAliases_NoLatest(finished, t) ==
    IF finished THEN <<FinishedAlias(t)>> ELSE <<Latest>>

\* The alias list log_model passes to log_artifact.
ModelAliases(finished, t) ==
    IF finished THEN <<Latest, FinishedAlias(t)>> ELSE <<Latest>>

Range(q) == { q[i] : i \in DOMAIN q }

(***************************************************************************)
(* Remote versions of the "model" artifact: versions[i] is the i-th        *)
(* upload, with the aliases it carries now, its files, whether it still    *)
(* exists (live) and whether it was uploaded with a "finished-..." alias.  *)
(* An alias names at most one version, so an upload takes its aliases away *)
(* from the versions that carried them.                                    *)
(***************************************************************************)
Uploaded(vs, aliases, files) ==
    Append([i \in DOMAIN vs |->
               [vs[i] EXCEPT !.aliases = @ \ Range(aliases)]],
           [aliases |-> Range(aliases), live |-> TRUE, files |-> files,
            finished |-> \E i \in DOMAIN aliases : IsFinishedAlias(aliases[i])])

LiveVersions(vs) == { i \in DOMAIN vs : vs[i].live }

\* Variant of the test on the aliases that is off by one.
Useless_OneAlias(vs) ==
    { i \in LiveVersions(vs) : Cardinality(vs[i].aliases) = 1 }

\* The versions delete_useless_model deletes: the listed ones with
\* len(version.aliases) == 0.
Useless(vs) == { i \in LiveVersions(vs) : Cardinality(vs[i].aliases) = 0 }

\* Variant in which version.delete is named but not called.
Deleted_NoEffect(vs, D) == vs

Deleted(vs, D) ==
    [i \in DOMAIN vs |->
        IF i \in D
          THEN [vs[i] EXCEPT !.live = FALSE, !.aliases = {}, !.files = {}]
          ELSE vs[i]]

RECURSIVE SortedSeq(_)
SortedSeq(S) ==
    IF S = {} THEN <<>>
    ELSE LET m == CHOOSE x \in S : \A y \in S : x <= y
         IN <<m>> \o SortedSeq(S \ {m})

DeleteCalls(D) ==
    LET q == SortedSeq(D) IN [i \in DOMAIN q |-> <<"delete", q[i]>>]

\* Every way delete_useless_model can run on vs: the listing raises; or a
\* delete raises after the deletes of D went through; or it returns, having
\* deleted every examined version without alias.
delete_useless_model(vs) ==
    { [ok |-> FALSE, versions |-> vs, calls |-> <<<<"artifact_versions">>>>] }
    \cup
    UNION { { [ok |-> FALSE, versions |-> Deleted(vs, D),
               calls |-> <<<<"artifact_versions">>>> \o DeleteCalls(D)
                         \o <<<<"delete", x>>>>] :
                D \in SUBSET (Useless(vs) \ {x}) } : x \in Useless(vs) }
    \cup
    { [ok |-> TRUE, versions |-> Deleted(vs, Useless(vs)),
       calls |-> <<<<"artifact_versions">>>> \o DeleteCalls(Useless(vs))] }

(***************************************************************************)
(* load_model: the reference string is a sequence of characters and        *)
(* tokens; the first PrefixLen are cut off ("artifact = " in the usage     *)
(* snippet of the tracking service), "self._" is put in front of the rest  *)
(* and the result is evaluated as an expression on the facade.             *)
(***************************************************************************)
PrefixLen == 11

Prefix == <<"a", "r", "t", "i", "f", "a", "c", "t", " ", "=", " ">>

\* model_api[11:]
Stripped(ref) == SubSeq(ref, PrefixLen + 1, Len(ref))

ModelRefs ==
    { <<"r", "u", "n">>,
      Prefix \o <<"run">>,
      Prefix \o <<"initialize_log_dir", "()">>,
      Prefix \o <<"run", "use_artifact", "model:latest">> }

\* The version a name given to use_artifact resolves to (0: none).
Resolve(vs, name) ==
    LET hit == IF name = "model:latest"
                 THEN { i \in LiveVersions(vs) : Latest \in vs[i].aliases }
               ELSE IF name = "model:v0" THEN LiveVersions(vs) \cap {1}
               ELSE {}
    IN IF hit = {} THEN 0 ELSE CHOOSE i \in hit : TRUE

\* eval("self._" + expr): what the expression evaluates to, the filesystem
\* it leaves and the remote calls it makes.
\*   kind "artifact": an artifact handle (version v);
\*   kind "object":   a value that is not an artifact and has no download;
\*   kind "raise":    the evaluation raised err.
Eval(expr, f, vs) ==
    IF expr = <<"run">>
      THEN { [kind |-> "object", v |-> 0, err |-> "", fs |-> f,
              calls |-> <<>>] }
    ELSE IF expr = <<"initialize_log_dir", "()">>
      THEN LET r == initialize_log_dir(f) IN
           { IF r.ok
               THEN [kind |-> "object", v |-> 0, err |-> "", fs |-> r.fs,
                     calls |-> r.calls]
               ELSE [kind |-> "raise", v |-> 0, err |-> "FileExistsError",
                     fs |-> r.fs, calls |-> r.calls] }
    ELSE IF Len(expr) = 3 /\ SubSeq(expr, 1, 2) = <<"run", "use_artifact">>
      THEN LET v == Resolve(vs, expr[3])
               c == <<<<"use_artifact", expr[3]>>>>
           IN { [kind |-> "raise", v |-> 0, err |-> "RemoteSessionError",
                 fs |-> f, calls |-> c] }
              \cup
              { [kind |-> "artifact", v |-> v, err |-> "", fs |-> f,
                 calls |-> c] : x \in { y \in {v} : y # 0 } }
    ELSE { [kind |-> "raise", v |-> 0, err |-> "AttributeError", fs |-> f,
            calls |-> <<>>] }

\* artifact.download(root=log_model_dir): the files of the version are added
\* to the model directory, which is created when missing.
Downloaded(f, files) ==
    [f EXCEPT !.model = [kind |-> IF @.kind = "absent" THEN "dir" ELSE @.kind,
                         files |-> @.files \cup files]]

(***************************************************************************)
(* State.                                                                  *)
(*   fs        local filesystem at the log path                            *)
(*   proc      "none": no facade; "live": facade constructed;              *)
(*             "exited": exit() ended the process                          *)
(*   versions  remote versions of the model artifact                       *)
(*   sent      records received by the remote session, in order            *)
(*   now, ticks  wall clock and the seconds elapsed                        *)
(*   op        the last facade call: its name, arguments, outcome, the     *)
(*             calls it made on the filesystem (Construct) and on the      *)
(*             tracking client, in order, and the value returned           *)
(*             (Idle after a step of the environment)                      *)
(***************************************************************************)
VARIABLES fs, proc, versions, sent, now, ticks, op

vars == <<fs, proc, versions, sent, now, ticks, op>>

Idle == [name |-> "none", arg |-> <<>>, result |-> "none", calls |-> <<>>,
         ret |-> "none", prev |-> 0]

\* The record of a call.  prev tells whether the facade call right before
\* it was a delete_useless_model() that returned: 0 when it was not, else
\* the number of client calls that one made.
Call(name, arg, result, calls, ret) ==
    [name |-> name, arg |-> arg, result |-> result, calls |-> calls,
     ret |-> ret,
     prev |-> IF op.name = "DeleteUselessModel" /\ op.result = "returned"
                THEN Len(op.calls) ELSE 0]

Configs ==
    { [k \in {"logger_name"} |-> "test_exp"],
      [k \in {"logger"} |-> "test_exp"] }

Epochs == {3}
Keys == {"loss", "Iteration"}
Values == {42}

Init ==
    /\ fs \in FsStates
    /\ proc = "none"
    /\ versions = <<>>
    /\ sent = <<>>
    /\ now = StartTime
    /\ ticks = 0
    /\ op = Idle

(***************************************************************************)
(* WandbLogger(config)                                                     *)
(***************************************************************************)
\* Variant of __init__ that resets the directories before it reads the key.
Construct_InitFirst(config) ==
    LET r == initialize_log_dir(fs) IN
    /\ fs' = r.fs
    /\ UNCHANGED <<versions, sent, now, ticks>>
    /\ IF ~r.ok
         THEN /\ proc' = "none"
              /\ op' = Call("Construct", <<config>>, "FileExistsError",
                            r.calls, "none")
         ELSE IF "logger_name" \notin DOMAIN config
           THEN /\ proc' = "none"
                /\ op' = Call("Construct", <<config>>, "KeyError", r.calls,
                              "none")
           ELSE \E ok \in BOOLEAN :
                /\ proc' = IF ok THEN "live" ELSE "none"
                /\ op' = Call("Construct", <<config>>,
                              IF ok THEN "returned" ELSE "RemoteSessionError",
                              r.calls \o <<<<"init", config["logger_name"]>>>>,
                              "none")

Construct(config) ==
    IF "logger_name" \notin DOMAIN config
      THEN /\ op' = Call("Construct", <<config>>, "KeyError", <<>>, "none")
           /\ proc' = "none"
           /\ UNCHANGED <<fs, versions, sent, now, ticks>>
      ELSE LET r == initialize_log_dir(fs) IN
           /\ fs' = r.fs
           /\ UNCHANGED <<versions, sent, now, ticks>>
           /\ IF ~r.ok
                THEN /\ proc' = "none"
                     /\ op' = Call("Construct", <<config>>, "FileExistsError",
                                   r.calls, "none")
                ELSE \E ok \in BOOLEAN :
                     /\ proc' = IF ok THEN "live" ELSE "none"
                     /\ op' = Call("Construct", <<config>>,
                                   IF ok THEN "returned"
                                   ELSE "RemoteSessionError",
                                   r.calls
                                   \o <<<<"init", config["logger_name"]>>>>,
                                   "none")

(***************************************************************************)
(* log_info(epoch, key, value)                                             *)
(***************************************************************************)
\* The dict literal {"Iteration": epoch, key: value}: a later entry with
\* the same key replaces the earlier one.
MetricRecord(epoch, key, value) ==
    [k \in {"Iteration", key} |-> IF k = key THEN value ELSE epoch]

log_info(epoch, key, value) ==
    /\ proc = "live"
    /\ Len(sent) < MaxRecords
    /\ \E ok \in BOOLEAN :
       /\ sent' = IF ok THEN Append(sent, MetricRecord(epoch, key, value))
                  ELSE sent
       /\ op' = Call("LogMetric", <<epoch, key, value>>,
                     IF ok THEN "returned" ELSE "RemoteSessionError",
                     <<<<"log", MetricRecord(epoch, key, value)>>>>, "none")
    /\ UNCHANGED <<fs, proc, versions, now, ticks>>

(***************************************************************************)
(* log_model(finished)                                                     *)
(***************************************************************************)
LogArtifactCall(aliases) == <<"log_artifact", "model", "model", aliases>>

log_model(finished) ==
    /\ proc = "live"
    /\ UNCHANGED <<fs, sent, now, ticks>>
    /\ IF ~CanEnumerate(fs, "model")
         THEN \* get_file_names_in_directory: exit()
              /\ proc' = "exited"
              /\ versions' = versions
              /\ op' = Call("LogModel", <<finished>>, "SystemExit", <<>>,
                            "none")
         ELSE LET aliases == ModelAliases(finished, now)
                  up == Uploaded(versions, aliases, fs.model.files)
              IN
              /\ Len(versions) < MaxVersions
              /\ proc' = proc
              /\ \/ \* log_artifact raises
                    /\ versions' = versions
                    /\ op' = Call("LogModel", <<finished>>,
                                  "RemoteSessionError",
                                  <<LogArtifactCall(aliases)>>, "none")
                 \/ /\ ~finished
                    /\ versions' = up
                    /\ op' = Call("LogModel", <<finished>>, "returned",
                                  <<LogArtifactCall(aliases)>>, "none")
                 \/ /\ finished
                    /\ \E r \in delete_useless_model(up) :
                       /\ versions' = r.versions
                       /\ op' = Call("LogModel", <<finished>>,
                                     IF r.ok THEN "returned"
                                     ELSE "RemoteSessionError",
                                     <<LogArtifactCall(aliases)>> \o r.calls,
                                     "none")

(***************************************************************************)
(* delete_useless_model()                                                  *)
(***************************************************************************)
DeleteUselessModel ==
    /\ proc = "live"
    /\ \E r \in delete_useless_model(versions) :
       /\ versions' = r.versions
       /\ op' = Call("DeleteUselessModel", <<>>,
                     IF r.ok THEN "returned" ELSE "RemoteSessionError",
                     r.calls, "none")
    /\ UNCHANGED <<fs, proc, sent, now, ticks>>

(***************************************************************************)
(* load_model(model_api)                                                   *)
(***************************************************************************)
load_model(model_api) ==
    /\ proc = "live"
    /\ UNCHANGED <<versions, sent, now, ticks>>
    /\ \E e \in Eval(Stripped(model_api), fs, versions) :
       \/ /\ e.kind = "raise"
          /\ fs' = e.fs
          /\ proc' = proc
          /\ op' = Call("LoadModel", <<model_api>>, e.err, e.calls, "none")
       \/ \* the value has no download attribute
          /\ e.kind = "object"
          /\ fs' = e.fs
          /\ proc' = proc
          /\ op' = Call("LoadModel", <<model_api>>, "AttributeError",
                        e.calls, "none")
       \/ \* download raises
          /\ e.kind = "artifact"
          /\ fs' = e.fs
          /\ proc' = proc
          /\ op' = Call("LoadModel", <<model_api>>, "RemoteSessionError",
                        e.calls \o <<<<"download", e.v>>>>, "none")
       \/ /\ e.kind = "artifact"
          /\ fs' = Downloaded(e.fs, versions[e.v].files)
          /\ IF CanEnumerate(fs', "model")
               THEN /\ proc' = proc
                    /\ op' = Call("LoadModel", <<model_api>>, "returned",
                                  e.calls \o <<<<"download", e.v>>>>,
                                  "log_model_dir")
               ELSE /\ proc' = "exited"
                    /\ op' = Call("LoadModel", <<model_api>>, "SystemExit",
                                  e.calls \o <<<<"download", e.v>>>>, "none")

(***************************************************************************)
(* Environment: the training code writes checkpoint files into the model   *)
(* directory between calls, the directory may be removed, time passes.     *)
(***************************************************************************)
EnvWriteModelFile(file) ==
    /\ CanEnumerate(fs, "model")
    /\ file \notin fs.model.files
    /\ fs' = [fs EXCEPT !.model.files = @ \cup {file}]
    /\ op' = Idle
    /\ UNCHANGED <<proc, versions, sent, now, ticks>>

EnvRemoveModelDir ==
    /\ KindAt(fs, "model") = "dir"
    /\ fs' = Removed(fs, "model")
    /\ op' = Idle
    /\ UNCHANGED <<proc, versions, sent, now, ticks>>

EnvTick ==
    /\ ticks < MaxTicks
    /\ now' = Tick(now)
    /\ ticks' = ticks + 1
    /\ op' = Idle
    /\ UNCHANGED <<fs, proc, versions, sent>>

Next ==
    \/ \E config \in Configs : Construct(config)
    \/ \E epoch \in Epochs, key \in Keys, value \in Values :
          log_info(epoch, key, value)
    \/ \E finished \in BOOLEAN : log_model(finished)
    \/ DeleteUselessModel
    \/ \E model_api \in ModelRefs : load_model(model_api)
    \/ \E file \in FileNames : EnvWriteModelFile(file)
    \/ EnvRemoveModelDir
    \/ EnvTick

Spec == Init /\ [][Next]_vars

(***************************************************************************)
(* Properties.                                                             *)
(***************************************************************************)
\* Positions of the calls of function fn in a trace of calls.
CallsOf(calls, fn) == { j \in DOMAIN calls : calls[j][1] = fn }

\* The directory at path p exists as a directory and is empty.
EmptyDirAt(f, p) ==
    /\ IsDirKind(f.root)
    /\ IF p = "dataset" THEN f.dataset = EmptyDir ELSE f.model = EmptyDir

\* C1: whenever Construct has returned, whatever was at the log path
\* before, <log_dir>/dataset and <log_dir>/model are directories and both
\* are empty.
ThmC1 ==
    (op.name = "Construct" /\ op.result = "returned") =>
        (EmptyDirAt(fs, "dataset") /\ EmptyDirAt(fs, "model"))

\* A Construct that returned after removing what was at the log path.
WitC1 ==
    /\ op.name = "Construct"
    /\ op.result = "returned"
    /\ op.calls[3] = <<"remove_file_dir", "log_dir", TRUE>>
    /\ op.calls[2] = <<"remove_file_dir", "model", TRUE>>
    /\ EmptyDirAt(fs, "model")

\* The alias list a LogModel call with this finished flag has to pass.
AliasesAsSpecified(aliases, finished, t) ==
    IF finished
      THEN /\ Len(aliases) = 2
           /\ aliases[1] = Latest
           /\ IsFinishedAlias(aliases[2])
           /\ aliases[2] = FinishedAlias(t)
      ELSE aliases = <<Latest>>

LogArtifactAsSpecified(c, finished, t) ==
    /\ c[2] = "model"
    /\ c[3] = "model"
    /\ AliasesAsSpecified(c[4], finished, t)

\* C2 as stated: every LogModel call makes exactly one log-artifact call,
\* for the artifact (name "model", type "model"), with the alias list
\* ["latest"] when not finished and ["latest", "finished-<timestamp>"]
\* when finished.
OrigC2 ==
    op.name = "LogModel" =>
        /\ Cardinality(CallsOf(op.calls, "log_artifact")) = 1
        /\ \A j \in CallsOf(op.calls, "log_artifact") :
              LogArtifactAsSpecified(op.calls[j], op.arg[1], now)

\* C2 as amended: no LogModel call makes more than one log-artifact call,
\* a LogModel call that returns has made exactly one, and each one made is
\* for the artifact (name "model", type "model") with the alias list
\* ["latest"] when not finished and ["latest", "finished-<timestamp>"] when
\* finished; a LogModel call that ends the process made none.
ThmC2 ==
    op.name = "LogModel" =>
        /\ Cardinality(CallsOf(op.calls, "log_artifact")) <= 1
        /\ op.result = "returned" =>
              Cardinality(CallsOf(op.calls, "log_artifact")) = 1
        /\ op.result = "SystemExit" => CallsOf(op.calls, "log_artifact") = {}
        /\ \A j \in CallsOf(op.calls, "log_artifact") :
              LogArtifactAsSpecified(op.calls[j], op.arg[1], now)

\* A finished LogModel that returned, after the clock moved.
WitC2 ==
    /\ op.name = "LogModel"
    /\ op.arg = <<TRUE>>
    /\ op.result = "returned"
    /\ now # StartTime
    /\ op.calls[1][4] = <<Latest, FinishedAlias(now)>>

NoAliaslessVersion(vs) ==
    \A i \in DOMAIN vs : vs[i].live => vs[i].aliases # {}

\* C3: after a LogModel(finished=true) that returned no remote version is
\* without alias, and its cleanup calls all come after its log-artifact
\* call; a LogModel(finished=false) deletes no remote version.
ThmC3 ==
    [][op'.name = "LogModel" =>
          /\ (op'.arg = <<TRUE>> /\ op'.result = "returned") =>
                /\ NoAliaslessVersion(versions')
                /\ op'.calls[1][1] = "log_artifact"
                /\ \A j \in CallsOf(op'.calls, "delete")
                         \cup CallsOf(op'.calls, "artifact_versions") : j > 1
          /\ op'.arg = <<FALSE>> =>
                /\ CallsOf(op'.calls, "delete") = {}
                /\ \A i \in DOMAIN versions :
                      versions[i].live => versions'[i].live]_vars

\* A finished LogModel that returned and whose cleanup deleted the version
\* that had lost "latest" to the upload.
WitC3 ==
    /\ op.name = "LogModel"
    /\ op.arg = <<TRUE>>
    /\ op.result = "returned"
    /\ CallsOf(op.calls, "delete") # {}
    /\ \E i \in DOMAIN versions : ~versions[i].live

ClaimC5 ==
    [][(op'.name = "LogMetric" /\ op'.result = "returned") =>
          /\ Len(sent') = Len(sent) + 1
          /\ SubSeq(sent', 1, Len(sent)) = sent
          /\ LET r == sent'[Len(sent')] IN
             /\ "Iteration" \in DOMAIN r
             /\ r["Iteration"] = op'.arg[1]
             /\ op'.arg[2] \in DOMAIN r
             /\ r[op'.arg[2]] = op'.arg[3]]_vars

ResolvesToArtifact(ref, vs) ==
    LET expr == SubSeq(ref, PrefixLen + 1, Len(ref)) IN
    /\ Len(expr) = 3
    /\ SubSeq(expr, 1, 2) = <<"run", "use_artifact">>
    /\ Resolve(vs, expr[3]) # 0

\* C7: a LoadModel whose reference does not resolve to an artifact handle
\* fails, downloads nothing, leaves the model directory as it was and
\* returns no path.
ClaimC7 ==
    [][(op'.name = "LoadModel" /\ ~ResolvesToArtifact(op'.arg[1], versions)) =>
          /\ op'.result \notin {"returned", "none"}
          /\ CallsOf(op'.calls, "download") = {}
          /\ fs'.model = fs.model
          /\ op'.ret = "none"]_vars

\* C8: a facade call that fails leaves the local directories and the
\* remote versions as they were before the call.
ClaimC8 ==
    [][(op'.name # "none" /\ op'.result # "returned") =>
          /\ fs' = fs
          /\ versions' = versions]_vars

\* C9: a LogModel that finds the model directory missing or not a
\* directory ends the process, with no call on the tracking client and
\* the remote versions as they were, whatever finished is.
ThmC9 ==
    [][(op'.name = "LogModel"
        /\ ~(IsDirKind(fs.root) /\ IsDirKind(fs.model.kind))) =>
          /\ op'.result = "SystemExit"
          /\ proc' = "exited"
          /\ op'.calls = <<>>
          /\ versions' = versions]_vars

\* A finished LogModel that ended the process while a remote version
\* without alias was there to delete.
WitC9 ==
    /\ op.name = "LogModel"
    /\ op.arg = <<TRUE>>
    /\ op.result = "SystemExit"
    /\ proc = "exited"
    /\ ~NoAliaslessVersion(versions)

\* The aliases the log-artifact calls of a trace gave to their uploads.
UploadedAliases(calls) ==
    UNION { Range(calls[j][4]) : j \in CallsOf(calls, "log_artifact") }

\* C10: a remote version is deleted only by a delete call on it, made when
\* it carries no alias (those it had before the call were taken by the
\* upload of the call), and a version uploaded with a "finished-..." alias
\* is never deleted.
ClaimC10 ==
    [][\A i \in DOMAIN versions :
          (versions[i].live /\ ~versions'[i].live) =>
             /\ \E j \in CallsOf(op'.calls, "delete") :
                   op'.calls[j] = <<"delete", i>>
             /\ versions[i].aliases \subseteq UploadedAliases(op'.calls)
             /\ ~versions[i].finished]_vars

=============================================================================
